---- MODULE Spec2Model ----
(***************************************************************************)
(* Weather service: a Flask application (src/app.py) that fetches hourly   *)
(* observations from the Open-Meteo API (src/services/weather_service.py), *)
(* stores them in one SQLite table (src/database.py) and renders the       *)
(* recent rows as an Excel sheet and a PDF report (src/services/).         *)
(*                                                                         *)
(* Units.  Time is counted in hours since the epoch (the API's Interval of *)
(* 3600 s is 1).  An ISO-8601 text is the record of its day and hour,      *)
(* ordered as the text is.  Temperatures and humidities are exact decimals *)
(* counted in thousandths, so round(x, 2) is a rounding to a multiple of   *)
(* 10 and round(x, 1) to a multiple of 100.  Coordinates are whole         *)
(* degrees.                                                                *)
(***************************************************************************)
EXTENDS Integers, Sequences, FiniteSets

VARIABLES
    table,      \* weather_data: the rows in rowid order
    now,        \* the wall clock, UTC, in hours
    tz,         \* the server's local offset from UTC, in hours
    resp,       \* the request handled by the last step and its response
    dbcall,     \* the last direct call of a database or report method and its outcome
    call,       \* the arguments of a call of _process_response on its own
    result      \* what that call returned, and the records list it built

vars == <<table, now, tz, resp, dbcall, call, result>>

----------------------------------------------------------------------------
(* Bounds of the model *)

\* the clock is read at NowInit and at MaxTicks later times
MaxTicks == 1
\* rows the table may hold
MaxRows == 2
\* time points and array lengths of an API response seen by a handler
MaxPts == 2
\* array lengths of the responses given to _process_response on its own
MaxLen == 7
\* rows the table may hold when many locations are asked for
MaxLocationRows == 11

----------------------------------------------------------------------------
(* Values *)

\* Python's None / SQL NULL
Null == [k |-> "null"]
\* IEEE NaN
NaN == [k |-> "nan"]
Num(n) == [k |-> "num", v |-> n]
IsNum(x) == x.k = "num"

Min2(a, b) == IF a <= b THEN a ELSE b

\* Python's round(x, ndigits) on a decimal counted in thousandths: to the
\* nearest multiple of m, ties to the even multiple
RoundTo(x, m) ==
    LET q == x \div m
        r == x % m
    IN  IF 2 * r < m THEN q * m
        ELSE IF 2 * r > m THEN (q + 1) * m
        ELSE IF q % 2 = 0 THEN q * m ELSE (q + 1) * m

\* mutant of Between: the bounds themselves are refused
Between_strict(lo, x, hi) == IsNum(x) /\ lo < x.v /\ x.v < hi

\* lo <= x <= hi on floats: False when x is NaN
Between(lo, x, hi) == IsNum(x) /\ lo <= x.v /\ x.v <= hi

----------------------------------------------------------------------------
(* Time texts *)

\* datetime.fromtimestamp(t).isoformat(): the server's local time of t
isoformat(t, offset) ==
    [d |-> (t + offset) \div 24, h |-> (t + offset) % 24]

\* SQLite's datetime(text): the text read as it stands, as UTC
datetime(iso) == iso.d * 24 + iso.h

\* the order of two ISO texts as strings
IsoLeq(a, b) == a.d < b.d \/ (a.d = b.d /\ a.h <= b.h)

----------------------------------------------------------------------------
(* WeatherService._process_response *)

\* len(list(range(start, stop, step))) for a step other than 0
RangeLen(start, stop, step) ==
    IF step > 0
    THEN IF stop <= start THEN 0 ELSE (stop - start + step - 1) \div step
    ELSE IF stop >= start THEN 0 ELSE (start - stop - step - 1) \div (-step)

\* float(x) if not np.isnan(x) else None
nan_to_none(x) == IF x = NaN THEN Null ELSE x

\* round(x, ndigits) if x is not None else None; m is 10 for 2 digits, 100 for 1
round_or_none(x, m) == IF x = Null THEN Null ELSE Num(RoundTo(x.v, m))

\* mutant of make_record: the humidity is read one index too early
make_record_shifted(resp0, i, lat, lon, offset) ==
    [timestamp |-> isoformat(resp0.Time + i * resp0.Interval, offset),
     temperature_2m |-> round_or_none(nan_to_none(resp0.temp[i + 1]), 10),
     relative_humidity_2m |->
         round_or_none(nan_to_none(resp0.hum[IF i = 0 THEN 1 ELSE i]), 100),
     latitude |-> lat,
     longitude |-> lon]

\* the record built in iteration i (from 0) of the loop
make_record(resp0, i, lat, lon, offset) ==
    [timestamp |-> isoformat(resp0.Time + i * resp0.Interval, offset),
     temperature_2m |-> round_or_none(nan_to_none(resp0.temp[i + 1]), 10),
     relative_humidity_2m |-> round_or_none(nan_to_none(resp0.hum[i + 1]), 100),
     latitude |-> lat,
     longitude |-> lon]

\* the records list: one record per time point that both arrays reach
all_records(resp0, lat, lon, offset) ==
    LET n == Min2(RangeLen(resp0.Time, resp0.TimeEnd, resp0.Interval),
                  Min2(Len(resp0.temp), Len(resp0.hum)))
    IN  [j \in 1..n |-> make_record(resp0, j - 1, lat, lon, offset)]

\* mutant of is_valid: or in place of and
is_valid_either(rec) ==
    rec.temperature_2m # Null \/ rec.relative_humidity_2m # Null

\* mutant of is_valid: the humidity is not looked at
is_valid_temp_only(rec) == rec.temperature_2m # Null

\* temp is not None and humidity is not None
is_valid(rec) == rec.temperature_2m # Null /\ rec.relative_humidity_2m # Null

\* valid_records[:5]
SampleSize == 5

NoResult == [raised |-> FALSE, status |-> "none", total_records |-> 0,
             valid_records |-> 0, start |-> Null, end |-> Null,
             data |-> <<>>, sample_data |-> <<>>]

Raised == [NoResult EXCEPT !.raised = TRUE, !.status = "raised"]

_process_response(resp0, lat, lon, offset) ==
    IF ~resp0.hourly THEN Raised
    ELSE IF resp0.Interval = 0 THEN Raised
    ELSE IF resp0.nvars < 2 THEN Raised
    ELSE IF Len(resp0.temp) = 0 \/ Len(resp0.hum) = 0 THEN Raised
    ELSE
      LET records == all_records(resp0, lat, lon, offset)
          valid == SelectSeq(records, is_valid)
      IN  [raised |-> FALSE,
           status |-> "success",
           total_records |-> Len(records),
           valid_records |-> Len(valid),
           start |-> IF Len(records) > 0 THEN records[1].timestamp ELSE Null,
           end |-> IF Len(records) > 0 THEN records[Len(records)].timestamp ELSE Null,
           data |-> valid,
           sample_data |-> SubSeq(valid, 1, Min2(SampleSize, Len(valid)))]

----------------------------------------------------------------------------
(* WeatherDatabase *)

\* mutant of not_null_ok: temperature_2m declared NOT NULL as well
not_null_ok_temperature(rec) ==
    rec.timestamp # Null /\ rec.latitude # Null /\ rec.longitude # Null
    /\ rec.temperature_2m # Null

\* the NOT NULL columns of weather_data
not_null_ok(rec) ==
    rec.timestamp # Null /\ rec.latitude # Null /\ rec.longitude # Null

\* the row one INSERT adds: id from AUTOINCREMENT, created_at from
\* CURRENT_TIMESTAMP (UTC)
insert_row(rec, id, t) ==
    [id |-> id,
     timestamp |-> rec.timestamp,
     latitude |-> rec.latitude,
     longitude |-> rec.longitude,
     temperature_2m |-> rec.temperature_2m,
     relative_humidity_2m |-> rec.relative_humidity_2m,
     created_at |-> isoformat(t, 0)]

\* whether a row holds the reading of a record: same time and place
same_reading(row, rec) ==
    /\ row.timestamp = rec.timestamp
    /\ row.latitude = rec.latitude
    /\ row.longitude = rec.longitude

\* mutant of store_weather_data: INSERT OR REPLACE on (timestamp, latitude,
\* longitude), which deletes the rows a new record replaces
store_weather_data_replace(tbl, records, t) ==
    LET kept(row) == \A i \in 1..Len(records) : ~same_reading(row, records[i])
        old == SelectSeq(tbl, kept)
    IN  [raised |-> FALSE,
         count |-> Len(records),
         table |-> old \o [i \in 1..Len(records) |->
                              [id |-> Len(tbl) + i,
                               timestamp |-> records[i].timestamp,
                               latitude |-> records[i].latitude,
                               longitude |-> records[i].longitude,
                               temperature_2m |-> records[i].temperature_2m,
                               relative_humidity_2m |-> records[i].relative_humidity_2m,
                               created_at |-> isoformat(t, 0)]]]

\* mutant of store_weather_data: INSERT OR IGNORE on (timestamp, latitude,
\* longitude), which skips a record whose reading is stored already
RECURSIVE insert_or_ignore(_, _, _)
insert_or_ignore(tbl, records, t) ==
    IF Len(records) = 0 THEN tbl
    ELSE LET rec == Head(records)
             dup == \E j \in 1..Len(tbl) : same_reading(tbl[j], rec)
             row == [id |-> Len(tbl) + 1,
                     timestamp |-> rec.timestamp,
                     latitude |-> rec.latitude,
                     longitude |-> rec.longitude,
                     temperature_2m |-> rec.temperature_2m,
                     relative_humidity_2m |-> rec.relative_humidity_2m,
                     created_at |-> isoformat(t, 0)]
         IN  insert_or_ignore(IF dup THEN tbl ELSE Append(tbl, row),
                              Tail(records), t)

store_weather_data_ignore(tbl, records, t) ==
    [raised |-> FALSE, count |-> Len(records),
     table |-> insert_or_ignore(tbl, records, t)]

\* One transaction: an INSERT that violates NOT NULL raises before the
\* commit, and the rows inserted so far are rolled back.
store_weather_data(tbl, records, t) ==
    IF \A i \in 1..Len(records) : not_null_ok(records[i])
    THEN [raised |-> FALSE,
          count |-> Len(records),
          table |-> tbl \o [i \in 1..Len(records) |->
                               insert_row(records[i], Len(tbl) + i, t)]]
    ELSE [raised |-> TRUE, count |-> 0, table |-> tbl]

\* ORDER BY timestamp DESC; rows of equal timestamp stay in rowid order
RECURSIVE order_desc(_)
order_desc(rows) ==
    IF Len(rows) <= 1 THEN rows
    ELSE LET h == Head(rows)
             rest == order_desc(Tail(rows))
             later(r) == ~IsoLeq(r.timestamp, h.timestamp)
             notlater(r) == IsoLeq(r.timestamp, h.timestamp)
         IN  SelectSeq(rest, later) \o <<h>> \o SelectSeq(rest, notlater)

\* LIMIT 1000
RecentLimit == 1000

\* WHERE datetime(timestamp) >= datetime('now', '-hours hours')
in_window(row, hours, t) == datetime(row.timestamp) >= t - hours

get_recent_data(tbl, hours, t) ==
    LET recent(row) == in_window(row, hours, t)
        sorted == order_desc(SelectSeq(tbl, recent))
    IN  SubSeq(sorted, 1, Min2(RecentLimit, Len(sorted)))

\* SELECT DISTINCT latitude, longitude: each pair once, in the order of its first row
RECURSIVE distinct_locations(_)
distinct_locations(rows) ==
    IF Len(rows) = 0 THEN <<>>
    ELSE LET front == distinct_locations(SubSeq(rows, 1, Len(rows) - 1))
             last == rows[Len(rows)]
             loc == [lat |-> last.latitude, lon |-> last.longitude]
         IN  IF \E i \in 1..Len(front) : front[i] = loc THEN front
             ELSE Append(front, loc)

\* LIMIT 10
LocationLimit == 10

\* MIN(timestamp) and MAX(timestamp): NULL on an empty table
min_timestamp(tbl) ==
    IF Len(tbl) = 0 THEN Null
    ELSE tbl[CHOOSE i \in 1..Len(tbl) :
               \A j \in 1..Len(tbl) : IsoLeq(tbl[i].timestamp, tbl[j].timestamp)].timestamp

max_timestamp(tbl) ==
    IF Len(tbl) = 0 THEN Null
    ELSE tbl[CHOOSE i \in 1..Len(tbl) :
               \A j \in 1..Len(tbl) : IsoLeq(tbl[j].timestamp, tbl[i].timestamp)].timestamp

get_data_summary(tbl) ==
    LET all == distinct_locations(tbl)
        locations == SubSeq(all, 1, Min2(LocationLimit, Len(all)))
    IN  [total_records |-> Len(tbl),
         unique_locations |-> Len(locations),
         oldest |-> min_timestamp(tbl),
         latest |-> max_timestamp(tbl),
         locations |-> locations]

----------------------------------------------------------------------------
(* WeatherService.fetch_weather_data *)

\* what the two API calls gave: ok is FALSE when the direct request did not
\* answer 200, the client raised or the responses list was empty
ApiFailure ==
    [ok |-> FALSE, hourly |-> FALSE, nvars |-> 0, Time |-> 0, TimeEnd |-> 0,
     Interval |-> 1, temp |-> <<>>, hum |-> <<>>]

NoFetch == [raised |-> FALSE, api_called |-> FALSE, result |-> NoResult]

fetch_weather_data(lat, lon, api, offset) ==
    IF ~IsNum(lat) \/ ~IsNum(lon) THEN [NoFetch EXCEPT !.raised = TRUE]
    ELSE IF ~Between(-90, lat, 90) THEN [NoFetch EXCEPT !.raised = TRUE]
    ELSE IF ~Between(-180, lon, 180) THEN [NoFetch EXCEPT !.raised = TRUE]
    ELSE IF ~api.ok THEN [NoFetch EXCEPT !.raised = TRUE, !.api_called = TRUE]
    ELSE LET res == _process_response(api, lat, lon, offset)
         IN  [raised |-> res.raised, api_called |-> TRUE, result |-> res]

----------------------------------------------------------------------------
(* ExcelService and PDFService *)

\* sort_values('timestamp'): ascending
RECURSIVE order_asc(_)
order_asc(rows) ==
    IF Len(rows) <= 1 THEN rows
    ELSE LET h == Head(rows)
             rest == order_asc(Tail(rows))
             earlier(r) == ~IsoLeq(h.timestamp, r.timestamp)
             notearlier(r) == IsoLeq(h.timestamp, r.timestamp)
         IN  SelectSeq(rest, earlier) \o <<h>> \o SelectSeq(rest, notearlier)

\* df[columns_to_export]
export_columns(row) ==
    [timestamp |-> row.timestamp,
     temperature_2m |-> row.temperature_2m,
     relative_humidity_2m |-> row.relative_humidity_2m]

\* mutant of generate_excel_report: an empty result is written as an empty
\* sheet
generate_excel_report_unchecked(tbl, hours, t) ==
    LET recent_data == get_recent_data(tbl, hours, t)
        df == order_asc(recent_data)
    IN  [raised |-> "none", rows |-> recent_data,
         sheet |-> [i \in 1..Len(df) |-> export_columns(df[i])]]

generate_excel_report(tbl, hours, t) ==
    LET recent_data == get_recent_data(tbl, hours, t)
        df == order_asc(recent_data)
    IN  IF Len(recent_data) = 0
        THEN [raised |-> "ValueError", rows |-> recent_data, sheet |-> <<>>]
        ELSE [raised |-> "none", rows |-> recent_data,
              sheet |-> [i \in 1..Len(df) |-> export_columns(df[i])]]

RECURSIVE sum_of(_)
sum_of(xs) == IF Len(xs) = 0 THEN 0 ELSE Head(xs).v + sum_of(Tail(xs))

\* mutant of column_stats: the maximum is read from the first row of the
\* sorted frame
column_stats_first(xs) ==
    LET vals == SelectSeq(xs, IsNum)
        n == Len(vals)
    IN  IF n = 0 THEN [avg |-> NaN, max |-> NaN, min |-> NaN]
        ELSE [avg |-> [sum |-> sum_of(vals), n |-> n],
              max |-> vals[1],
              min |-> vals[CHOOSE i \in 1..n : \A j \in 1..n : vals[i].v <= vals[j].v]]

\* pandas mean(), max() and min() of a column: nulls are skipped, and a
\* column of nulls gives NaN.  The mean is kept as the fraction sum / n.
column_stats(xs) ==
    LET vals == SelectSeq(xs, IsNum)
        n == Len(vals)
    IN  IF n = 0 THEN [avg |-> NaN, max |-> NaN, min |-> NaN]
        ELSE [avg |-> [sum |-> sum_of(vals), n |-> n],
              max |-> vals[CHOOSE i \in 1..n : \A j \in 1..n : vals[j].v <= vals[i].v],
              min |-> vals[CHOOSE i \in 1..n : \A j \in 1..n : vals[i].v <= vals[j].v]]

NoReport == [raised |-> "none", rows |-> <<>>, total_records |-> 0,
             hours_covered |-> 0, location |-> Null, date_range |-> Null,
             temperature |-> Null, humidity |-> Null]

generate_pdf_report(tbl, hours, t) ==
    LET recent_data == get_recent_data(tbl, hours, t)
        df == order_asc(recent_data)
    IN  IF Len(recent_data) = 0
        THEN [NoReport EXCEPT !.raised = "ValueError"]
        ELSE [raised |-> "none",
              rows |-> recent_data,
              total_records |-> Len(df),
              hours_covered |-> hours,
              location |-> [lat |-> df[1].latitude, lon |-> df[1].longitude],
              date_range |-> [start |-> df[1].timestamp,
                              end |-> df[Len(df)].timestamp],
              temperature |-> column_stats([i \in 1..Len(df) |-> df[i].temperature_2m]),
              humidity |-> column_stats([i \in 1..Len(df) |-> df[i].relative_humidity_2m])]

----------------------------------------------------------------------------
(* The request handlers of app.py *)

\* a query argument as sent: left out, a text that is no number, the text
\* "nan", or a number
QAbsent == [k |-> "absent"]
QText == [k |-> "text"]
QNan == [k |-> "nantext"]
Q(n) == [k |-> "num", v |-> n]

\* request.args.get(name, type=float): None when absent or not convertible
parse_float(q) ==
    IF q.k = "num" THEN Num(q.v)
    ELSE IF q.k = "nantext" THEN NaN
    ELSE Null

\* request.args.get('hours', default=48, type=int): the default when absent
\* or not convertible
DefaultHours == 48

parse_hours(q) == IF q.k = "num" THEN q.v ELSE DefaultHours

\* mutant of invalid_hours: 0 is let through
invalid_hours_lax(hours) == hours < 0 \/ hours > 168

\* hours <= 0 or hours > 168
MaxHours == 168

invalid_hours(hours) == hours <= 0 \/ hours > MaxHours

Answer(status, tbl, body) ==
    [status |-> status, api_called |-> FALSE, db_queried |-> FALSE,
     table |-> tbl, body |-> body]

\* mutant of get_weather_report: database_stored reports the records the
\* API sent, not the rows stored
get_weather_report_total(tbl, latq, lonq, api, t, offset) ==
    LET lat == parse_float(latq)
        lon == parse_float(lonq)
        fetched == fetch_weather_data(lat, lon, api, offset)
        st == store_weather_data(tbl, fetched.result.data, t)
    IN  IF lat = Null \/ lon = Null \/ ~Between(-90, lat, 90)
           \/ ~Between(-180, lon, 180)
        THEN Answer(400, tbl, [error |-> "Bad request"])
        ELSE IF fetched.raised
        THEN [Answer(500, tbl, [error |-> "Failed to fetch weather data"])
                EXCEPT !.api_called = fetched.api_called]
        ELSE [status |-> 200, api_called |-> TRUE, db_queried |-> FALSE,
              table |-> st.table,
              body |-> [result |-> fetched.result,
                        database_stored |-> fetched.result.total_records]]

get_weather_report(tbl, latq, lonq, api, t, offset) ==
    LET lat == parse_float(latq)
        lon == parse_float(lonq)
    IN  IF lat = Null \/ lon = Null
        THEN Answer(400, tbl, [error |-> "Missing parameters"])
        ELSE IF ~Between(-90, lat, 90)
        THEN Answer(400, tbl, [error |-> "Invalid latitude (-90 to 90)"])
        ELSE IF ~Between(-180, lon, 180)
        THEN Answer(400, tbl, [error |-> "Invalid longitude (-180 to 180)"])
        ELSE
          LET fetched == fetch_weather_data(lat, lon, api, offset)
              failed == [Answer(500, tbl, [error |-> "Failed to fetch weather data"])
                           EXCEPT !.api_called = fetched.api_called]
          IN  IF fetched.raised THEN failed
              ELSE IF Len(fetched.result.data) > 0
              THEN LET st == store_weather_data(tbl, fetched.result.data, t)
                   IN  IF st.raised THEN failed
                       ELSE [status |-> 200, api_called |-> TRUE,
                             db_queried |-> FALSE, table |-> st.table,
                             body |-> [result |-> fetched.result,
                                       database_stored |-> st.count]]
              ELSE [status |-> 200, api_called |-> TRUE, db_queried |-> FALSE,
                    table |-> tbl,
                    body |-> [result |-> fetched.result, database_stored |-> 0]]

export_excel(tbl, hoursq, t) ==
    LET hours == parse_hours(hoursq)
    IN  IF invalid_hours(hours)
        THEN Answer(400, tbl, [error |-> "Invalid hours parameter (1-168)"])
        ELSE LET file == generate_excel_report(tbl, hours, t)
             IN  [Answer(IF file.raised = "ValueError" THEN 404 ELSE 200, tbl,
                         IF file.raised = "ValueError"
                         THEN [error |-> "No data available"]
                         ELSE [hours |-> hours, file |-> file])
                    EXCEPT !.db_queried = TRUE]

export_pdf(tbl, hoursq, t) ==
    LET hours == parse_hours(hoursq)
    IN  IF invalid_hours(hours)
        THEN Answer(400, tbl, [error |-> "Invalid hours parameter (1-168)"])
        ELSE LET file == generate_pdf_report(tbl, hours, t)
             IN  [Answer(IF file.raised = "ValueError" THEN 404 ELSE 200, tbl,
                         IF file.raised = "ValueError"
                         THEN [error |-> "No data available"]
                         ELSE [hours |-> hours, file |-> file])
                    EXCEPT !.db_queried = TRUE]

\* data[:10]
PreviewSize == 10

data_recent(tbl, hoursq, t) ==
    LET hours == parse_hours(hoursq)
    IN  IF invalid_hours(hours)
        THEN Answer(400, tbl, [error |-> "Invalid hours parameter (1-168)"])
        ELSE LET data == get_recent_data(tbl, hours, t)
             IN  [Answer(200, tbl,
                         [hours_requested |-> hours,
                          records_found |-> Len(data),
                          data |-> SubSeq(data, 1, Min2(PreviewSize, Len(data)))])
                    EXCEPT !.db_queried = TRUE]

data_summary(tbl) ==
    [Answer(200, tbl, get_data_summary(tbl)) EXCEPT !.db_queried = TRUE]

----------------------------------------------------------------------------
(* Inputs *)

\* the lat and lon arguments of /weather-report
CoordArgs ==
    {<<Q(-90), Q(-180)>>, <<Q(90), Q(180)>>,
     <<QAbsent, Q(8)>>, <<Q(47), QAbsent>>, <<QText, Q(8)>>, <<Q(47), QText>>,
     <<QNan, Q(8)>>, <<Q(47), QNan>>,
     <<Q(-91), Q(8)>>, <<Q(91), Q(8)>>, <<Q(47), Q(-181)>>, <<Q(47), Q(181)>>}

\* the hours argument of the exports and of /data/recent
HourArgs == {QAbsent, QText, Q(0), Q(1), Q(MaxHours), Q(MaxHours + 1)}

\* the raw float32 readings of the i-th time point, in thousandths
ApiTemp(i) == 21456 + 1000 * i
ApiHum(i) == 64930 + 150 * i

\* n readings, NaN at the indices in nans
Series(n, nans, kind) ==
    [i \in 1..n |-> IF i \in nans THEN NaN
                    ELSE IF kind = "temperature_2m" THEN Num(ApiTemp(i))
                    ELSE Num(ApiHum(i))]

\* What the API may answer at time t: a failure, a response without hourly
\* data or with one variable only, or one value of each variable for each of
\* n hourly time points, at most one of them NaN.  The request asks for the
\* days up to the end of the current day, so the time points reach past t.
ApiAnswers(t) ==
    {ApiFailure,
     [ApiFailure EXCEPT !.ok = TRUE],
     [ApiFailure EXCEPT !.ok = TRUE, !.hourly = TRUE, !.nvars = 1]}
    \cup
    UNION {{[ok |-> TRUE, hourly |-> TRUE, nvars |-> 2, Time |-> t,
             TimeEnd |-> t + n, Interval |-> 1,
             temp |-> Series(n, miss[1], "temperature_2m"),
             hum |-> Series(n, miss[2], "relative_humidity_2m")] :
               miss \in {<<{}, {}>>} \cup {<<{i}, {}>> : i \in 1..n}
                                     \cup {<<{}, {i}>> : i \in 1..n}} :
           n \in 0..MaxPts}

----------------------------------------------------------------------------
(* State machine *)

\* 23:00 of the second day, so that the clock passes midnight
NowInit == 2 * 24 - 1

TzOffsets == {0, 1}

NoResp ==
    [op |-> "none", status |-> 0, lat |-> QAbsent, lon |-> QAbsent,
     hours |-> QAbsent, api_called |-> FALSE, db_queried |-> FALSE,
     body |-> Null]

NoCall == [op |-> "none", args |-> Null, ret |-> Null]

NoArgs == [response |-> ApiFailure, lat |-> Null, lon |-> Null]

NoTrace == [ret |-> NoResult, records |-> <<>>]

Init ==
    /\ table = <<>>
    /\ now = NowInit
    /\ tz \in TzOffsets
    /\ resp = NoResp
    /\ dbcall = NoCall
    /\ call = NoArgs
    /\ result = NoTrace

\* the response of a handler that answered a
Handled(op, latq, lonq, hoursq, a) ==
    [op |-> op, status |-> a.status, lat |-> latq,
     lon |-> lonq, hours |-> hoursq, api_called |-> a.api_called,
     db_queried |-> a.db_queried, body |-> a.body]

\* whether the handler sends these coordinates to the API
calls_api(c) ==
    get_weather_report(table, c[1], c[2], ApiFailure, now, tz).api_called

WeatherReport ==
    \E c \in CoordArgs :
      \E api \in IF calls_api(c) THEN ApiAnswers(now) ELSE {ApiFailure} :
        LET a == get_weather_report(table, c[1], c[2], api, now, tz)
        IN  /\ Len(a.table) <= MaxRows
            /\ table' = a.table
            /\ resp' = Handled("weather-report", c[1], c[2], QAbsent, a)
            /\ UNCHANGED <<now, tz, dbcall, call, result>>

ExportExcel ==
    \E h \in HourArgs :
        /\ resp' = Handled("export-excel", QAbsent, QAbsent, h,
                           export_excel(table, h, now))
        /\ UNCHANGED <<table, now, tz, dbcall, call, result>>

ExportPdf ==
    \E h \in HourArgs :
        /\ resp' = Handled("export-pdf", QAbsent, QAbsent, h,
                           export_pdf(table, h, now))
        /\ UNCHANGED <<table, now, tz, dbcall, call, result>>

DataRecent ==
    \E h \in HourArgs :
        /\ resp' = Handled("data-recent", QAbsent, QAbsent, h,
                           data_recent(table, h, now))
        /\ UNCHANGED <<table, now, tz, dbcall, call, result>>

DataSummary ==
    /\ resp' = Handled("data-summary", QAbsent, QAbsent, QAbsent,
                       data_summary(table))
    /\ UNCHANGED <<table, now, tz, dbcall, call, result>>

\* / and /health answer a fixed document
Home ==
    /\ resp' = Handled("home", QAbsent, QAbsent, QAbsent,
                       Answer(200, table, [status |-> "operational"]))
    /\ UNCHANGED <<table, now, tz, dbcall, call, result>>

Health ==
    /\ resp' = Handled("health", QAbsent, QAbsent, QAbsent,
                       Answer(200, table, [status |-> "healthy"]))
    /\ UNCHANGED <<table, now, tz, dbcall, call, result>>

\* two hours pass between two requests
Tick ==
    /\ now < NowInit + 2 * MaxTicks
    /\ now' = now + 2
    /\ resp' = NoResp
    /\ UNCHANGED <<table, tz, dbcall, call, result>>

Next ==
    \/ WeatherReport
    \/ ExportExcel
    \/ ExportPdf
    \/ DataRecent
    \/ DataSummary
    \/ Home
    \/ Health
    \/ Tick

Spec == Init /\ [][Next]_vars

----------------------------------------------------------------------------
(* _process_response on its own *)

\* the reading at index i (from 1): each index has its own value, among them
\* ties of the two roundings, in thousandths
TempAt(i) == 7 * i - 20
HumAt(i) == 64900 + 25 * i

\* arrays of k readings with NaN at the indexes in nans
Readings(k, nans, at(_)) == [i \in 1..k |-> IF i \in nans THEN NaN ELSE Num(at(i))]

TempArrays ==
    UNION {{Readings(k, nans, TempAt) : nans \in SUBSET (1..k)} : k \in 0..MaxLen}

\* humidity arrays with at most one NaN
HumArrays ==
    UNION {{Readings(k, nans, HumAt) : nans \in {{}} \cup {{j} : j \in 1..k}} :
           k \in 0..MaxLen}

\* the responses handed to _process_response at time t: the time range and the two
\* arrays vary on their own, so that each of the three can be the shortest
HourlyResponses(t) ==
    {[ApiFailure EXCEPT !.ok = TRUE],
     [ApiFailure EXCEPT !.ok = TRUE, !.hourly = TRUE, !.nvars = 1]}
    \cup
    {[ok |-> TRUE, hourly |-> TRUE, nvars |-> 2, Time |-> t - 1,
      TimeEnd |-> t - 1 + span, Interval |-> step, temp |-> temp,
      hum |-> hum] :
        span \in 0..(MaxLen + 1), step \in {1, 2},
        temp \in TempArrays, hum \in HumArrays}

InitProcess ==
    /\ table = <<>>
    /\ now = NowInit
    /\ tz \in TzOffsets
    /\ resp = NoResp
    /\ dbcall = NoCall
    /\ call \in {[response |-> r, lat |-> Num(47), lon |-> Num(8)] :
                    r \in HourlyResponses(now)}
    /\ result = NoTrace

ProcessResponse ==
    /\ result = NoTrace
    /\ result' =
         [ret |-> _process_response(call.response, call.lat, call.lon, tz),
          records |-> IF _process_response(call.response, call.lat, call.lon, tz).raised
                      THEN <<>>
                      ELSE all_records(call.response, call.lat, call.lon, tz)]
    /\ UNCHANGED <<table, now, tz, resp, dbcall, call>>

SpecProcess == InitProcess /\ [][ProcessResponse]_vars

----------------------------------------------------------------------------
(* The methods of WeatherDatabase called on their own *)

\* a record of the current hour with the fields in nulls set to None
RecordWith(nulls, t, offset) ==
    LET full == [timestamp |-> isoformat(t, offset), latitude |-> Num(47),
                 longitude |-> Num(8), temperature_2m |-> Num(21460),
                 relative_humidity_2m |-> Num(64900)]
    IN  [f \in DOMAIN full |-> IF f \in nulls THEN Null ELSE full[f]]

RecordFields ==
    {"timestamp", "latitude", "longitude", "temperature_2m", "relative_humidity_2m"}

\* the lists given to store_weather_data: every single record, and every
\* complete record followed by a second record
StoreArgs(t, offset) ==
    {<<RecordWith(nulls, t, offset)>> : nulls \in SUBSET RecordFields}
    \cup
    {<<RecordWith({}, t, offset), RecordWith(nulls, t, offset)>> :
        nulls \in {{}, {"latitude"}, {"temperature_2m"}}}

DbStore ==
    \E records \in StoreArgs(now, tz) :
        LET st == store_weather_data(table, records, now)
        IN  /\ Len(st.table) <= MaxRows
            /\ table' = st.table
            /\ dbcall' = [op |-> "store_weather_data", args |-> records,
                          ret |-> [raised |-> st.raised, count |-> st.count]]
            /\ resp' = NoResp
            /\ UNCHANGED <<now, tz, call, result>>

DbRecent ==
    \E hours \in {1, DefaultHours} :
        /\ dbcall' = [op |-> "get_recent_data", args |-> hours,
                      ret |-> get_recent_data(table, hours, now)]
        /\ resp' = NoResp
        /\ UNCHANGED <<table, now, tz, call, result>>

DbSummary ==
    /\ dbcall' = [op |-> "get_data_summary", args |-> Null,
                  ret |-> get_data_summary(table)]
    /\ resp' = NoResp
    /\ UNCHANGED <<table, now, tz, call, result>>

DbTick ==
    /\ now < NowInit + 2 * MaxTicks
    /\ now' = now + 2
    /\ dbcall' = NoCall
    /\ UNCHANGED <<table, tz, resp, call, result>>

NextDb ==
    \/ DbStore
    \/ DbRecent
    \/ DbSummary
    \/ DbTick

SpecDb == Init /\ [][NextDb]_vars

----------------------------------------------------------------------------
(* /weather-report for many locations, and /data/summary *)

\* the requests sent when the table holds tbl: one for a latitude not asked
\* for before, answered with one time point, or one for the first latitude
\* again, answered with two
LocationRequests(tbl) ==
    {[lat |-> Q(Len(tbl)), lon |-> Q(8), points |-> 1],
     [lat |-> Q(0), lon |-> Q(8), points |-> 2]}

\* an answer of the API with n complete time points from t on
CompleteAnswer(t, n) ==
    [ok |-> TRUE, hourly |-> TRUE, nvars |-> 2, Time |-> t, TimeEnd |-> t + n,
     Interval |-> 1, temp |-> Series(n, {}, "temperature_2m"),
     hum |-> Series(n, {}, "relative_humidity_2m")]

LocationReport ==
    \E rq \in LocationRequests(table) :
        LET a == get_weather_report(table, rq.lat, rq.lon,
                                    CompleteAnswer(now, rq.points), now, tz)
        IN  /\ Len(a.table) <= MaxLocationRows
            /\ table' = a.table
            /\ resp' = Handled("weather-report", rq.lat, rq.lon, QAbsent, a)
            /\ UNCHANGED <<now, tz, dbcall, call, result>>

NextLocations ==
    \/ LocationReport
    \/ DataSummary

SpecLocations == Init /\ [][NextLocations]_vars

----------------------------------------------------------------------------
(* Properties *)

IsPrefix(xs, ys) == Len(xs) <= Len(ys) /\ SubSeq(ys, 1, Len(xs)) = xs

\* the number of elements of a list of rows or records that hold rec's
\* five values
Copies(xs, rec) ==
    Cardinality({i \in 1..Len(xs) :
        /\ same_reading(xs[i], rec)
        /\ xs[i].temperature_2m = rec.temperature_2m
        /\ xs[i].relative_humidity_2m = rec.relative_humidity_2m})

Stored(step) == step.op = "weather-report" /\ step.status = 200

\* C1: the table is append-only.  Every step of every handler leaves the
\* rows it found in place and unchanged, the new table begins with the old
\* one, and only a /weather-report that stored rows changes the table.
C1_AppendOnly ==
    [][/\ IsPrefix(table, table')
       /\ table' # table =>
            Stored(resp') /\ resp'.body.database_stored > 0]_vars

\* a report has been exported from a table that holds rows of two stores
C1_Witness ==
    /\ resp.op = "export-pdf"
    /\ resp.status = 200
    /\ \E i, j \in 1..Len(table) : table[i].created_at # table[j].created_at

\* C2: uniqueness is not enforced.  A successful /weather-report adds one
\* row for each record of its data, whatever the table holds already: the
\* table has as many more copies of each record as the data has.
C2_NoUniqueness ==
    [][Stored(resp') =>
         LET data == resp'.body.result.data
         IN  /\ Len(table') = Len(table) + Len(data)
             /\ \A i \in 1..Len(data) :
                  Copies(table', data[i]) =
                      Copies(table, data[i]) + Copies(data, data[i])]_vars

\* the same record has just been stored a second time
C2_Witness ==
    /\ Stored(resp)
    /\ \E i \in 1..Len(resp.body.result.data) :
         Copies(table, resp.body.result.data[i]) = 2

\* _process_response has returned its dictionary
Processed == result # NoTrace /\ result.ret.status = "success"

\* the time points of range(Time, TimeEnd, Interval)
TimePoints(r) == {t \in r.Time..(r.TimeEnd - 1) : (t - r.Time) % r.Interval = 0}

\* min(number of time points, len(temperature), len(humidity))
AlignedCount(r) ==
    Min2(Cardinality(TimePoints(r)), Min2(Len(r.temp), Len(r.hum)))

Abs(x) == IF x < 0 THEN -x ELSE x

\* s is x rounded to a multiple of m, a tie going to the even multiple
RoundedTo(s, x, m) ==
    /\ s % m = 0
    /\ 2 * Abs(s - x) <= m
    /\ 2 * Abs(s - x) = m => (s \div m) % 2 = 0

\* the text is the server's local time of the instant t
TextOf(text, t) == text.h \in 0..23 /\ datetime(text) = t + tz

Before(a, b) == IsoLeq(a, b) /\ a # b

\* what the claims C3 and its amendment share: the number of records, each
\* record's time and place, and their order
AlignedByIndex ==
    LET r == call.response
        recs == result.records
    IN  /\ Len(recs) = AlignedCount(r)
        /\ \A i \in 1..Len(recs) :
             /\ TextOf(recs[i].timestamp, r.Time + (i - 1) * r.Interval)
             /\ recs[i].latitude = call.lat
             /\ recs[i].longitude = call.lon
        /\ \A i, j \in 1..Len(recs) :
             i < j => Before(recs[i].timestamp, recs[j].timestamp)

\* C3 as amended: _process_response builds min(time points, len(temperature),
\* len(humidity)) records; the i-th carries the local ISO text of
\* Time + i*Interval, the requested latitude and longitude, temperature[i]
\* rounded to 2 decimals and humidity[i] rounded to 1 decimal (null for
\* NaN), in ascending timestamp order.
C3_AlignedRounded ==
    Processed =>
      /\ AlignedByIndex
      /\ \A i \in 1..Len(result.records) :
           LET rec == result.records[i]
               t == call.response.temp[i]
               h == call.response.hum[i]
           IN  /\ IF t = NaN THEN rec.temperature_2m = Null
                  ELSE /\ IsNum(rec.temperature_2m)
                       /\ RoundedTo(rec.temperature_2m.v, t.v, 10)
               /\ IF h = NaN THEN rec.relative_humidity_2m = Null
                  ELSE /\ IsNum(rec.relative_humidity_2m)
                       /\ RoundedTo(rec.relative_humidity_2m.v, h.v, 100)

\* C3 as stated: the i-th record carries temperature[i] and humidity[i]
\* themselves (null for NaN).
C3_AlignedExact ==
    Processed =>
      /\ AlignedByIndex
      /\ \A i \in 1..Len(result.records) :
           LET rec == result.records[i]
               t == call.response.temp[i]
               h == call.response.hum[i]
           IN  /\ rec.temperature_2m = IF t = NaN THEN Null ELSE t
               /\ rec.relative_humidity_2m = IF h = NaN THEN Null ELSE h

\* the time range is the shortest of the three, it passes midnight, and a
\* reading was changed by the rounding
C3_Witness ==
    /\ Processed
    /\ Len(result.records) >= 2
    /\ Len(result.records) < Len(call.response.temp)
    /\ Len(result.records) < Len(call.response.hum)
    /\ result.records[1].timestamp.d # result.records[2].timestamp.d
    /\ \E i \in 1..Len(result.records) :
         /\ IsNum(call.response.temp[i])
         /\ result.records[i].temperature_2m # call.response.temp[i]

BothPresent(rec) == rec.temperature_2m # Null /\ rec.relative_humidity_2m # Null

\* C4: a NaN reading becomes null in its record; data holds exactly the
\* records with both readings, in order; total_records counts the aligned
\* records and valid_records the data, so valid_records <= total_records;
\* sample_data is the first min(5, len(data)) elements of data.
C4_MissingValues ==
    Processed =>
      LET recs == result.records
          ret == result.ret
      IN  /\ \A i \in 1..Len(recs) :
               /\ recs[i].temperature_2m = Null <=> call.response.temp[i] = NaN
               /\ recs[i].relative_humidity_2m = Null <=> call.response.hum[i] = NaN
          /\ \A i \in 1..Len(recs) :
               BothPresent(recs[i]) <=> \E k \in 1..Len(ret.data) : ret.data[k] = recs[i]
          /\ \A k \in 1..Len(ret.data) : \E i \in 1..Len(recs) : ret.data[k] = recs[i]
          /\ \A k, l \in 1..Len(ret.data) :
               k < l => Before(ret.data[k].timestamp, ret.data[l].timestamp)
          /\ ret.total_records = Len(recs)
          /\ ret.valid_records = Len(ret.data)
          /\ ret.valid_records <= ret.total_records
          /\ Len(ret.sample_data) =
                 IF Len(ret.data) < 5 THEN Len(ret.data) ELSE 5
          /\ \A k \in 1..Len(ret.sample_data) : ret.sample_data[k] = ret.data[k]

\* more than five records are valid and one is not
C4_Witness ==
    /\ Processed
    /\ Len(result.ret.data) > 5
    /\ result.ret.valid_records < result.ret.total_records
    /\ Len(result.ret.sample_data) = 5

\* the rows a handler's answer carries: those given to a report renderer,
\* or those listed by /data/recent
RowsAnswered ==
    IF resp.op \in {"export-excel", "export-pdf"} /\ resp.status = 200
    THEN resp.body.file.rows
    ELSE IF resp.op = "data-recent" /\ resp.status = 200 THEN resp.body.data
    ELSE <<>>

\* C5: in every state reached through the handlers, every row of the table
\* and every row handed to the Excel and PDF routines has a temperature and
\* a relative humidity.
C5_ValidatedRows ==
    /\ \A i \in 1..Len(table) : BothPresent(table[i])
    /\ \A i \in 1..Len(RowsAnswered) : BothPresent(RowsAnswered[i])

\* an Excel report has been made of the rows of two stores
C5_Witness ==
    /\ resp.op = "export-excel"
    /\ resp.status = 200
    /\ \E i, j \in 1..Len(RowsAnswered) :
         RowsAnswered[i].created_at # RowsAnswered[j].created_at

\* the four nullable-by-claim fields of a record that are null
NullFields(rec) ==
    {f \in {"latitude", "longitude", "temperature_2m", "relative_humidity_2m"} :
        rec[f] = Null}

SameValues(row, rec) ==
    \A f \in RecordFields : row[f] = rec[f]

\* C6 as amended: temperature and relative humidity are nullable: a call of
\* store_weather_data whose records all have a timestamp, a latitude and a
\* longitude is accepted, each record is persisted as it is, and its row
\* reads back with the null fields null.  A call with a record whose
\* latitude, longitude or timestamp is null raises and stores nothing.
C6_NullableReadings ==
    [][dbcall'.op = "store_weather_data" =>
         LET recs == dbcall'.args
             back == get_recent_data(table', 168, now')
         IN  IF \E i \in 1..Len(recs) :
                  \/ recs[i].timestamp = Null
                  \/ recs[i].latitude = Null
                  \/ recs[i].longitude = Null
             THEN dbcall'.ret.raised /\ table' = table
             ELSE /\ ~dbcall'.ret.raised
                  /\ dbcall'.ret.count = Len(recs)
                  /\ IsPrefix(table, table')
                  /\ Len(table') = Len(table) + Len(recs)
                  /\ \A i \in 1..Len(recs) :
                       /\ SameValues(table'[Len(table) + i], recs[i])
                       /\ \E k \in 1..Len(back) :
                            /\ back[k].id = table'[Len(table) + i].id
                            /\ SameValues(back[k], recs[i])]_vars

\* C6 as stated: a record in which any one of latitude, longitude,
\* temperature and relative humidity is null is accepted and persisted with
\* that field null.
C6_AnyOneNullable ==
    [][/\ dbcall'.op = "store_weather_data"
       /\ Len(dbcall'.args) = 1
       /\ dbcall'.args[1].timestamp # Null
       /\ Cardinality(NullFields(dbcall'.args[1])) = 1
       => /\ ~dbcall'.ret.raised
          /\ Len(table') = Len(table) + 1
          /\ SameValues(table'[Len(table')], dbcall'.args[1])]_vars

\* a record without a temperature has been stored after another row
C6_Witness ==
    /\ dbcall.op = "store_weather_data"
    /\ ~dbcall.ret.raised
    /\ Len(table) >= 2
    /\ dbcall.args[Len(dbcall.args)].temperature_2m = Null
    /\ table[Len(table)].temperature_2m = Null
    /\ table[Len(table)].relative_humidity_2m # Null

\* C7: /weather-report fetches, then stores.  A request that does not answer
\* 200 writes nothing; one that does has called the API, and
\* database_stored is the number of rows it appended, which is len(data):
\* the rows appended are the records of data, none when data is empty.
C7_FetchThenStore ==
    [][resp'.op = "weather-report" =>
         IF resp'.status = 200
         THEN LET data == resp'.body.result.data
                  n == resp'.body.database_stored
              IN  /\ resp'.api_called
                  /\ resp'.body.result.status = "success"
                  /\ n = Len(data)
                  /\ IsPrefix(table, table')
                  /\ Len(table') = Len(table) + n
                  /\ \A i \in 1..n : SameValues(table'[Len(table) + i], data[i])
                  /\ Len(data) = 0 => n = 0 /\ table' = table
         ELSE table' = table]_vars

\* a fetch with an incomplete record has stored the complete ones
C7_Witness ==
    /\ Stored(resp)
    /\ resp.body.database_stored >= 1
    /\ resp.body.result.valid_records < resp.body.result.total_records
    /\ Len(table) > resp.body.database_stored

\* a query argument that is missing or no number
Unusable(q) == q.k \in {"absent", "text"}

OutOf(q, lo, hi) == q.k = "num" /\ (q.v < lo \/ q.v > hi)

Within(q, lo, hi) == q.k = "num" /\ lo <= q.v /\ q.v <= hi

\* C8: /weather-report with lat or lon missing or not a number, lat outside
\* [-90, 90] or lon outside [-180, 180] answers 400, calls no API and writes
\* no row; with both inside, the bounds included, it does not answer 400 and
\* calls the API.
C8_CoordinateValidation ==
    [][resp'.op = "weather-report" =>
         /\ (\/ Unusable(resp'.lat) \/ Unusable(resp'.lon)
             \/ OutOf(resp'.lat, -90, 90) \/ OutOf(resp'.lon, -180, 180))
            => resp'.status = 400 /\ ~resp'.api_called /\ table' = table
         /\ Within(resp'.lat, -90, 90) /\ Within(resp'.lon, -180, 180)
            => resp'.status # 400 /\ resp'.api_called]_vars

\* a latitude of 91 has been refused while the table holds rows
C8_Witness ==
    /\ resp.op = "weather-report"
    /\ resp.lat = Q(91)
    /\ resp.status = 400
    /\ Len(table) > 0

\* the window of the request answered: the hours it asked for
HoursAnswered ==
    IF resp.op = "data-recent" THEN resp.body.hours_requested ELSE resp.body.hours

\* the instant a row's timestamp names
InstantOf(row) == datetime(row.timestamp) - tz

InLastHours(row, hours) ==
    now - hours <= InstantOf(row) /\ InstantOf(row) <= now

\* C9: the rows get_recent_data(hours) gives to the Excel report, the PDF
\* report and /data/recent are exactly the rows of the last `hours` hours:
\* each has now - hours <= t <= now, and the reports hold every such row.
C9_LastHoursOnly ==
    /\ \A i \in 1..Len(RowsAnswered) : InLastHours(RowsAnswered[i], HoursAnswered)
    /\ resp.op \in {"export-excel", "export-pdf"} /\ resp.status \in {200, 404}
       => \A i \in 1..Len(table) :
            InLastHours(table[i], parse_hours(resp.hours))
            => \E k \in 1..Len(RowsAnswered) : RowsAnswered[k] = table[i]

HourOps == {"export-excel", "export-pdf", "data-recent"}

\* C10: the three handlers with an hours argument answer 400 without a
\* query for hours <= 0 and hours > 168, run the query with the hours given
\* for 1..168, and with 48 when the argument is absent.
C10_HoursValidation ==
    resp.op \in HourOps =>
      /\ OutOf(resp.hours, 1, 168) => resp.status = 400 /\ ~resp.db_queried
      /\ Within(resp.hours, 1, 168) =>
           /\ resp.db_queried
           /\ resp.status # 400
           /\ resp.status = 200 => HoursAnswered = resp.hours.v
      /\ resp.hours = QAbsent =>
           /\ resp.db_queried
           /\ resp.status # 400
           /\ resp.status = 200 => HoursAnswered = 48

\* hours=0 has been refused by the PDF export while the table holds rows
C10_Witness ==
    /\ resp.op = "export-pdf"
    /\ resp.hours = Q(0)
    /\ resp.status = 400
    /\ Len(table) > 0

\* the two exports
ExportOps == {"export-excel", "export-pdf"}

\* the hours an answered request ran its query with
HoursOf(step) == parse_hours(step.hours)

\* C11: an export whose query returns no rows gets no file: both report
\* routines raise ValueError and the export answers 404 "No data available";
\* when the query returns a row, both routines return a report of those rows
\* and the export answers 200 with it.
C11_NoDataNotFound ==
    resp.op \in ExportOps /\ resp.db_queried =>
      LET hours == HoursOf(resp)
          rows == get_recent_data(table, hours, now)
          excel == generate_excel_report(table, hours, now)
          pdf == generate_pdf_report(table, hours, now)
      IN  IF Len(rows) = 0
          THEN /\ excel.raised = "ValueError" /\ excel.sheet = <<>>
               /\ pdf.raised = "ValueError" /\ pdf.total_records = 0
               /\ resp.status = 404
               /\ resp.body = [error |-> "No data available"]
          ELSE /\ excel.raised = "none" /\ Len(excel.sheet) = Len(rows)
               /\ pdf.raised = "none" /\ pdf.total_records = Len(rows)
               /\ resp.status = 200
               /\ resp.body.file.raised = "none"
               /\ resp.body.file.rows = rows

\* the PDF export has answered 404 for the last hour while the table holds
\* a row, an older one
C11_Witness ==
    /\ resp.op = "export-pdf"
    /\ resp.hours = Q(1)
    /\ resp.status = 404
    /\ Len(table) > 0

\* the sum of a field over rows, all of which hold a number in it
RECURSIVE Total(_, _)
Total(rows, field) ==
    IF Len(rows) = 0 THEN 0
    ELSE rows[Len(rows)][field].v + Total(SubSeq(rows, 1, Len(rows) - 1), field)

\* st gives the smallest and the largest value of the field among rows and,
\* as the fraction sum / n, their arithmetic mean
MinMaxMean(st, rows, field) ==
    /\ \A i \in 1..Len(rows) : IsNum(rows[i][field])
    /\ IsNum(st.min) /\ IsNum(st.max)
    /\ \E i \in 1..Len(rows) : rows[i][field] = st.min
    /\ \E i \in 1..Len(rows) : rows[i][field] = st.max
    /\ \A i \in 1..Len(rows) :
          st.min.v <= rows[i][field].v /\ rows[i][field].v <= st.max.v
    /\ st.avg.n = Len(rows)
    /\ st.avg.sum = Total(rows, field)
    /\ st.min.v * st.avg.n <= st.avg.sum
    /\ st.avg.sum <= st.max.v * st.avg.n

\* C12: the PDF of a non-empty result of get_recent_data(hours) reports, for
\* the temperature and for the humidity, the minimum, the maximum and the
\* arithmetic mean of the field over exactly the rows returned, whose number
\* is total_records; so min <= avg <= max.
C12_PdfStatistics ==
    resp.op = "export-pdf" /\ resp.status = 200 =>
      LET rows == get_recent_data(table, HoursOf(resp), now)
          file == resp.body.file
      IN  /\ Len(rows) > 0
          /\ file.total_records = Len(rows)
          /\ MinMaxMean(file.temperature, rows, "temperature_2m")
          /\ MinMaxMean(file.humidity, rows, "relative_humidity_2m")

\* a PDF over two rows of different readings: the mean lies strictly between
\* the minimum and the maximum
C12_Witness ==
    /\ resp.op = "export-pdf"
    /\ resp.status = 200
    /\ resp.body.file.total_records = 2
    /\ resp.body.file.temperature.min.v < resp.body.file.temperature.max.v
    /\ resp.body.file.humidity.min.v * 2 < resp.body.file.humidity.avg.sum
    /\ resp.body.file.humidity.avg.sum < resp.body.file.humidity.max.v * 2

\* the (latitude, longitude) pairs of the rows of tbl
LocationsOf(tbl) ==
    {[lat |-> tbl[i].latitude, lon |-> tbl[i].longitude] : i \in 1..Len(tbl)}

\* the timestamps of the rows of tbl
TimestampsOf(tbl) == {tbl[i].timestamp : i \in 1..Len(tbl)}

\* C13: /data/summary describes the whole table: total_records is the number
\* of rows, unique_locations the number of distinct (latitude, longitude)
\* pairs among all rows, locations lists each of these pairs once, and
\* oldest <= latest are the smallest and the largest stored timestamp, both
\* null when the table is empty.
C13_SummaryOfWholeTable ==
    resp.op = "data-summary" =>
      LET summary == resp.body
          listed == {summary.locations[i] : i \in 1..Len(summary.locations)}
      IN  /\ resp.status = 200
          /\ summary.total_records = Len(table)
          /\ summary.unique_locations = Cardinality(LocationsOf(table))
          /\ listed = LocationsOf(table)
          /\ Len(summary.locations) = Cardinality(listed)
          /\ IF Len(table) = 0
             THEN summary.oldest = Null /\ summary.latest = Null
             ELSE /\ summary.oldest \in TimestampsOf(table)
                  /\ summary.latest \in TimestampsOf(table)
                  /\ IsoLeq(summary.oldest, summary.latest)
                  /\ \A ts \in TimestampsOf(table) :
                        IsoLeq(summary.oldest, ts) /\ IsoLeq(ts, summary.latest)

====
